---- MODULE Spec2Model ----
(***************************************************************************)
(* The tab/view orchestration layer of the browser shell:                  *)
(*   - ViewManager (src/main/view-manager.ts): the map of Views, the       *)
(*     selection, the display stack of the owning window, the bounds of    *)
(*     the selected View, the dialogs synchronised on select, zoom;        *)
(*   - AuthWindow.requestAuth: the one-shot request/response bridge.       *)
(*                                                                         *)
(* Host objects (BrowserWindow, BrowserView, webContents, ipcMain) are     *)
(* modelled by the state their calls change.  A call on a host object is   *)
(* assumed to succeed; a fault is a dereference of `undefined` in the      *)
(* TypeScript source itself (views.get(id) of an absent key).              *)
(***************************************************************************)
EXTENDS Integers, Sequences, FiniteSets, TLC

\* ------------------------------------------------------------------ bounds
MaxViews == 2          \* Views created over a run; ids are 1..MaxViews
MaxDim == 2            \* window content width and height range over 1..MaxDim
MaxAuthRequests == 3   \* requestAuth calls over a run
MaxAuthEvents == 3     \* 'request-auth-result' events over a run
MaxPayload == 2        \* distinct response payloads
MaxTabEntries == 1     \* tab ids held by the dialogs of a window, in total
MaxStale == 1          \* dialogs shown or hidden behind the manager's back

\* ------------------------------------------------------- program constants
\* ~/constants/design VIEW_Y_OFFSET: the toolbar height (symbolic unit).
VIEW_Y_OFFSET == 1
\* ~/constants/web-contents, in units of one tenth of a zoom factor.
ZOOM_FACTOR_MIN == 8
ZOOM_FACTOR_MAX == 12
ZOOM_FACTOR_INCREMENT == 1
\* webContents.zoomFactor of a fresh surface, and the reset value 1.
ZOOM_FACTOR_ONE == 10
\* ViewManager.selectedId initial value: no View has this id.
NoSelection == 0

Windows == {1, 2}
Ids == 1..MaxViews
Dims == 1..MaxDim
Payloads == 1..MaxPayload

\* The dialogs select() synchronises, in the order of the array literal.
DialogList ==
  <<"findDialog", "authDialog", "permissionsDialog", "formFillDialog",
    "credentialsDialog">>

Range(s) == {s[i] : i \in DOMAIN s}

Dialogs == Range(DialogList)

VARIABLES
  managers,      \* windows whose ViewManager is constructed, in construction order
  nextId,        \* id the next View gets (webContents ids are never reused)
  views,         \* views[w]: keys of ViewManager.views
  hooks,         \* hooks[w]: ids with a 'destroyed' once-listener installed
  selectedId,    \* selectedId[w]
  fullscreen,    \* _fullscreen[w]
  attached,      \* attached[w]: BrowserViews on the window's display stack
  focus,         \* focus[w]: 0 none, -1 window chrome, id a View's surface
  title,         \* title[w]: id of the View the window title was taken from
  contentSize,   \* contentSize[w] = <<width, height>> of getContentBounds()
  alive,         \* ids whose BrowserView is not destroyed
  pendingDestroyed, \* ids destroyed whose 'destroyed' event is not yet emitted
  observed,      \* ids registered with extensions.tabs.observe
  zoom,          \* zoom[id]: webContents.zoomFactor
  muted,         \* muted[id]: webContents audio muted
  bounds,        \* bounds[id]: View.bounds (the cached rectangle)
  applied,       \* applied[id]: rectangle last given to browserView.setBounds
  dlgTabIds,     \* dlgTabIds[w][d]: dialog d's tabIds
  dlgVisible,    \* dlgVisible[w][d]
  previewVisible,\* previewVisible[w]
  sent,          \* calls and messages the last request made, in order
  fault,         \* the last request threw
  rejected,      \* the last request's event had preventDefault() called
  lastOp,        \* the last request or event
  authRequests,  \* requestAuth promises: [url, resolved, result, resolveCalls]
  authListeners, \* ipcMain 'request-auth-result' once-listeners (request indices)
  authShown,     \* the auth window is shown
  authEvents     \* number of 'request-auth-result' events so far

viewVars ==
  <<managers, nextId, views, hooks, selectedId, fullscreen, attached, focus,
    title, contentSize, alive, pendingDestroyed, observed, zoom, muted, bounds,
    applied, dlgTabIds, dlgVisible, previewVisible>>

outVars == <<sent, fault, rejected, lastOp>>

authVars == <<authRequests, authListeners, authShown, authEvents>>

vars == <<viewVars, outVars, authVars>>

\* ------------------------------------------------------------ data shapes
NoRect == [x |-> -1, y |-> -1, width |-> -1, height |-> -1]

Op(op, w, id, flag) == [op |-> op, w |-> w, id |-> id, flag |-> flag]

Msg(w, ch, id, val, flag, dlg) ==
  [w |-> w, ch |-> ch, id |-> id, val |-> val, flag |-> flag, dlg |-> dlg]

\* ------------------------------------------------------------------- Init
InitCommon ==
  /\ nextId = 1
  /\ views = [w \in Windows |-> {}]
  /\ hooks = [w \in Windows |-> {}]
  /\ selectedId = [w \in Windows |-> NoSelection]
  /\ fullscreen = [w \in Windows |-> FALSE]
  /\ attached = [w \in Windows |-> {}]
  /\ focus = [w \in Windows |-> 0]
  /\ title = [w \in Windows |-> 0]
  /\ contentSize = [w \in Windows |-> <<MaxDim, MaxDim>>]
  /\ alive = {}
  /\ pendingDestroyed = {}
  /\ observed = {}
  /\ zoom = [i \in Ids |-> ZOOM_FACTOR_ONE]
  /\ muted = [i \in Ids |-> FALSE]
  /\ bounds = [i \in Ids |-> NoRect]
  /\ applied = [i \in Ids |-> NoRect]
  /\ dlgTabIds = [w \in Windows |-> [d \in Dialogs |-> {}]]
  /\ dlgVisible = [w \in Windows |-> [d \in Dialogs |-> FALSE]]
  /\ previewVisible = [w \in Windows |-> FALSE]
  /\ sent = <<>>
  /\ fault = FALSE
  /\ rejected = FALSE
  /\ lastOp = Op("init", 0, 0, FALSE)
  /\ authRequests = <<>>
  /\ authListeners = <<>>
  /\ authShown = FALSE
  /\ authEvents = 0

\* One window, one ViewManager.
Init == InitCommon /\ managers = <<1>>

\* Two windows, each with its ViewManager, constructed in the order 1, 2.
InitWindows == InitCommon /\ managers = <<1, 2>>

\* One window whose Views come with any zoom factor within the limits (the
\* host restores the factor a page was last shown with).
InitZoomRange ==
  /\ managers = <<1>>
  /\ nextId = 1
  /\ views = [w \in Windows |-> {}]
  /\ hooks = [w \in Windows |-> {}]
  /\ selectedId = [w \in Windows |-> NoSelection]
  /\ fullscreen = [w \in Windows |-> FALSE]
  /\ attached = [w \in Windows |-> {}]
  /\ focus = [w \in Windows |-> 0]
  /\ title = [w \in Windows |-> 0]
  /\ contentSize = [w \in Windows |-> <<MaxDim, MaxDim>>]
  /\ alive = {}
  /\ pendingDestroyed = {}
  /\ observed = {}
  /\ zoom \in [Ids -> ZOOM_FACTOR_MIN .. ZOOM_FACTOR_MAX]
  /\ muted = [i \in Ids |-> FALSE]
  /\ bounds = [i \in Ids |-> NoRect]
  /\ applied = [i \in Ids |-> NoRect]
  /\ dlgTabIds = [w \in Windows |-> [d \in Dialogs |-> {}]]
  /\ dlgVisible = [w \in Windows |-> [d \in Dialogs |-> FALSE]]
  /\ previewVisible = [w \in Windows |-> FALSE]
  /\ sent = <<>>
  /\ fault = FALSE
  /\ rejected = FALSE
  /\ lastOp = Op("init", 0, 0, FALSE)
  /\ authRequests = <<>>
  /\ authListeners = <<>>
  /\ authShown = FALSE
  /\ authEvents = 0


\* ------------------------------------------------------------- ViewManager
\* get selected(): views.get(selectedId); HasSelected is "it is not undefined".
HasSelected(vs, sid) == sid \in vs

\* select() without its early return.
SelectFindsView_NoGuard(vs, id) == TRUE

\* select(): `const view = this.views.get(id); if (!view) return;`
SelectFindsView(vs, id) == id \in vs

\* A dialog shown whenever it pertains to some tab.
DialogShown_AnyTab(tabIds, id) == tabIds # {}

\* select(): `this.window.dialogs[dialog].tabIds.includes(id)`
DialogShown(tabIds, id) == id \in tabIds

\* fixBounds() that forgets to shrink the height by the toolbar offset.
NewBounds_FullHeight(fs, width, height) ==
  [x |-> 0,
   y |-> IF fs THEN 0 ELSE VIEW_Y_OFFSET,
   width |-> width,
   height |-> height]

\* fixBounds(): the rectangle computed from getContentBounds() and fullscreen.
NewBounds(fs, width, height) ==
  [x |-> 0,
   y |-> IF fs THEN 0 ELSE VIEW_Y_OFFSET,
   width |-> width,
   height |-> IF fs THEN height ELSE height - VIEW_Y_OFFSET]

\* change-zoom with strict comparisons: the limits themselves are refused.
ZoomInRange_Strict(z) == z < ZOOM_FACTOR_MAX /\ z > ZOOM_FACTOR_MIN

\* change-zoom that checks the upper limit only.
ZoomInRange_NoMin(z) == z <= ZOOM_FACTOR_MAX

\* change-zoom that checks the lower limit only.
ZoomInRange_NoMax(z) == z >= ZOOM_FACTOR_MIN

\* change-zoom: `newZoomFactor <= ZOOM_FACTOR_MAX && newZoomFactor >= ZOOM_FACTOR_MIN`
ZoomInRange(z) == z <= ZOOM_FACTOR_MAX /\ z >= ZOOM_FACTOR_MIN

\* A 'destroyed' listener that leaves the map alone.
DestroyedHook_Keep(vs, id) == vs

\* create(): the once('destroyed') listener, `this.views.delete(id)`.
DestroyedHook(vs, id) == vs \ {id}

\* destroy(): `view && !view.browserView.isDestroyed()`
DestroyActs(vs, al, id) == id \in vs /\ id \in al

\* clear(): Object.values(this.views).  views is an ES Map: it has no own
\* enumerable string-keyed properties, so Object.values of it is empty
\* whatever entries the Map holds.
ObjectValues(vs) == {}

\* View.destroy(): tears down the surfaces of ids (the surface reports it
\* later with its 'destroyed' event).
ViewDestroy(al, ids) == al \ ids

\* The calls select() makes on dialog d for the selected id.
DialogCalls(w, tabIds, id, d) ==
  IF DialogShown(tabIds, id)
    THEN <<Msg(w, "dialog-show", id, 0, FALSE, d),
           Msg(w, "dialog-bringToTop", id, 0, FALSE, d)>>
    ELSE <<Msg(w, "dialog-hide", id, 0, FALSE, d)>>

RECURSIVE AllDialogCalls(_, _, _, _)
AllDialogCalls(w, tabs, id, i) ==
  IF i > Len(DialogList) THEN <<>>
  ELSE DialogCalls(w, tabs[DialogList[i]], id, DialogList[i])
         \o AllDialogCalls(w, tabs, id, i + 1)

\* emitZoomUpdate that ignores its argument and always asks for the dialog.
ZoomUpdateMsgs_AlwaysShow(w, sid, z, showDialog) ==
  <<Msg(w, "zoomDialog:zoom-factor-updated", sid, z, FALSE, "zoomDialog"),
    Msg(w, "window:zoom-factor-updated", sid, z, TRUE, "none")>>

\* emitZoomUpdate(showDialog): the two sends.  Its caller has checked that
\* the manager has a selected View (otherwise line 231 throws).
ZoomUpdateMsgs(w, sid, z, showDialog) ==
  <<Msg(w, "zoomDialog:zoom-factor-updated", sid, z, FALSE, "zoomDialog"),
    Msg(w, "window:zoom-factor-updated", sid, z, showDialog, "none")>>

\* create() that announces every new tab.
CreateTabMsgs_Always(w, id, isNext, sendMessage) ==
  <<Msg(w, "window:create-tab", id, 0, isNext, "none")>>

\* create(): `if (sendMessage) this.window.send('create-tab', ..., isNext, id)`
CreateTabMsgs(w, id, isNext, sendMessage) ==
  IF sendMessage
    THEN <<Msg(w, "window:create-tab", id, 0, isNext, "none")>>
    ELSE <<>>

\* create(details, isNext, sendMessage)
Create(w, isNext, sendMessage) ==
  /\ w \in Range(managers)
  /\ nextId <= MaxViews
  /\ LET id == nextId IN
       /\ nextId' = nextId + 1
       /\ alive' = alive \cup {id}
       /\ views' = [views EXCEPT ![w] = @ \cup {id}]
       /\ observed' = observed \cup {id}
       /\ hooks' = [hooks EXCEPT ![w] = @ \cup {id}]
       /\ sent' = CreateTabMsgs(w, id, isNext, sendMessage)
       /\ lastOp' = Op("create", w, id, sendMessage)
  /\ fault' = FALSE
  /\ rejected' = FALSE
  /\ UNCHANGED <<managers, selectedId, fullscreen, attached, focus, title,
                 contentSize, pendingDestroyed, zoom, muted, bounds, applied,
                 dlgTabIds, dlgVisible, previewVisible>>
  /\ UNCHANGED authVars

\* select() that always focuses the View's surface.
FocusTarget_AlwaysView(id, fcs) == id

\* select(): `if (focus) view.webContents.focus(); else
\* this.window.webContents.focus();` (-1 is the window chrome).
FocusTarget(id, fcs) == IF fcs THEN id ELSE -1

\* select(id, focus)
Select(w, id, fcs) ==
  /\ w \in Range(managers)
  /\ lastOp' = Op("select", w, id, fcs)
  /\ fault' = FALSE
  /\ rejected' = FALSE
  /\ IF ~SelectFindsView(views[w], id)
       THEN /\ sent' = <<>>
            /\ UNCHANGED viewVars
       ELSE LET rect == NewBounds(fullscreen[w], contentSize[w][1],
                                  contentSize[w][2])
                stack == IF HasSelected(views[w], selectedId[w])
                           THEN attached[w] \ {selectedId[w]}
                           ELSE attached[w]
            IN
            /\ selectedId' = [selectedId EXCEPT ![w] = id]
            /\ attached' = [attached EXCEPT ![w] = stack \cup {id}]
            /\ focus' = [focus EXCEPT ![w] = FocusTarget(id, fcs)]
            /\ previewVisible' = [previewVisible EXCEPT ![w] = FALSE]
            /\ dlgVisible' = [dlgVisible EXCEPT ![w] =
                 [d \in Dialogs |-> DialogShown(dlgTabIds[w][d], id)]]
            /\ title' = [title EXCEPT ![w] = id]
            /\ applied' = [applied EXCEPT ![id] = rect]
            /\ bounds' = [bounds EXCEPT ![id] = rect]
            /\ sent' = <<Msg(w, "preview-hide", id, 0, TRUE, "previewDialog")>>
                 \o AllDialogCalls(w, dlgTabIds[w], id, 1)
                 \o <<Msg(w, "update-title", id, 0, FALSE, "none"),
                      Msg(w, "update-bookmark", id, 0, FALSE, "none"),
                      Msg(w, "set-bounds", id, 0, FALSE, "none"),
                      Msg(w, "update-navigation-state", id, 0, FALSE, "none")>>
                 \o ZoomUpdateMsgs(w, id, zoom[id], FALSE)
            /\ UNCHANGED <<managers, nextId, views, hooks, fullscreen,
                           contentSize, alive, pendingDestroyed, observed,
                           zoom, muted, dlgTabIds>>
  /\ UNCHANGED authVars

\* fixBounds(), as a state change of bounds and applied only.
FixBoundsEffect(w, fs) ==
  IF ~HasSelected(views[w], selectedId[w])
    THEN /\ sent' = <<>>
         /\ UNCHANGED <<bounds, applied>>
    ELSE LET rect == NewBounds(fs, contentSize[w][1], contentSize[w][2]) IN
         /\ applied' = [applied EXCEPT ![selectedId[w]] = rect]
         /\ bounds' = [bounds EXCEPT ![selectedId[w]] = rect]
         /\ sent' = <<Msg(w, "set-bounds", selectedId[w], 0, FALSE, "none")>>

\* fixBounds(), called by the window (on resize)
FixBounds(w) ==
  /\ w \in Range(managers)
  /\ lastOp' = Op("fixBounds", w, 0, FALSE)
  /\ fault' = FALSE
  /\ rejected' = FALSE
  /\ FixBoundsEffect(w, fullscreen[w])
  /\ UNCHANGED <<managers, nextId, views, hooks, selectedId, fullscreen,
                 attached, focus, title, contentSize, alive, pendingDestroyed,
                 observed, zoom, muted, dlgTabIds, dlgVisible, previewVisible>>
  /\ UNCHANGED authVars

\* set fullscreen(val)
SetFullscreen(w, val) ==
  /\ w \in Range(managers)
  /\ lastOp' = Op("fullscreen", w, 0, val)
  /\ fault' = FALSE
  /\ rejected' = FALSE
  /\ fullscreen' = [fullscreen EXCEPT ![w] = val]
  /\ FixBoundsEffect(w, val)
  /\ UNCHANGED <<managers, nextId, views, hooks, selectedId, attached, focus,
                 title, contentSize, alive, pendingDestroyed, observed, zoom,
                 muted, dlgTabIds, dlgVisible, previewVisible>>
  /\ UNCHANGED authVars

\* removeBrowserView that empties the window's display stack.
Detach_All(stack, id) == {}

\* win.removeBrowserView(view.browserView): the stack without that View.
Detach(stack, id) == stack \ {id}

\* destroy(id).  View.destroy() tears the surface down; the surface reports
\* it later with its 'destroyed' event (DestroyedEvent).
Destroy(w, id) ==
  /\ w \in Range(managers)
  /\ lastOp' = Op("destroy", w, id, DestroyActs(views[w], alive, id))
  /\ fault' = FALSE
  /\ rejected' = FALSE
  /\ sent' = <<>>
  /\ IF DestroyActs(views[w], alive, id)
       THEN /\ attached' = [attached EXCEPT ![w] = Detach(@, id)]
            /\ alive' = ViewDestroy(alive, {id})
            /\ pendingDestroyed' = pendingDestroyed \cup {id}
       ELSE UNCHANGED <<attached, alive, pendingDestroyed>>
  /\ UNCHANGED <<managers, nextId, views, hooks, selectedId, fullscreen, focus,
                 title, contentSize, observed, zoom, muted, bounds, applied,
                 dlgTabIds, dlgVisible, previewVisible>>
  /\ UNCHANGED authVars

\* clear()
Clear(w) ==
  /\ w \in Range(managers)
  /\ lastOp' = Op("clear", w, 0, FALSE)
  /\ fault' = FALSE
  /\ rejected' = FALSE
  /\ sent' = <<>>
  /\ attached' = [attached EXCEPT ![w] = {}]
  /\ alive' = ViewDestroy(alive, ObjectValues(views[w]))
  /\ pendingDestroyed' = pendingDestroyed \cup (ObjectValues(views[w]) \cap alive)
  /\ UNCHANGED <<managers, nextId, views, hooks, selectedId, fullscreen, focus,
                 title, contentSize, observed, zoom, muted, bounds, applied,
                 dlgTabIds, dlgVisible, previewVisible>>
  /\ UNCHANGED authVars

\* mute-view-<id> (val = TRUE) and unmute-view-<id> (val = FALSE):
\* `const view = this.views.get(tabId); view.webContents.setAudioMuted(val)`
\* throws a TypeError when views has no entry for tabId.
SetMuted(w, tabId, val) ==
  /\ w \in Range(managers)
  /\ lastOp' = Op(IF val THEN "mute-view" ELSE "unmute-view", w, tabId, val)
  /\ rejected' = FALSE
  /\ sent' = <<>>
  /\ IF tabId \in views[w]
       THEN /\ muted' = [muted EXCEPT ![tabId] = val]
            /\ fault' = FALSE
       ELSE /\ fault' = TRUE
            /\ UNCHANGED muted
  /\ UNCHANGED <<managers, nextId, views, hooks, selectedId, fullscreen,
                 attached, focus, title, contentSize, alive, pendingDestroyed,
                 observed, zoom, bounds, applied, dlgTabIds, dlgVisible,
                 previewVisible>>
  /\ UNCHANGED authVars

\* ------------------------------------------------------------ host events
\* The host tears a surface down on its own (the page or the window closes).
SurfaceDies(id) ==
  /\ id \in alive
  /\ alive' = alive \ {id}
  /\ pendingDestroyed' = pendingDestroyed \cup {id}
  /\ lastOp' = Op("surface-dies", 0, id, FALSE)
  /\ fault' = FALSE
  /\ rejected' = FALSE
  /\ sent' = <<>>
  /\ UNCHANGED <<managers, nextId, views, hooks, selectedId, fullscreen,
                 attached, focus, title, contentSize, observed, zoom, muted,
                 bounds, applied, dlgTabIds, dlgVisible, previewVisible>>
  /\ UNCHANGED authVars

\* webContents emits 'destroyed': the once-listeners installed by create() run.
DestroyedEvent(id) ==
  /\ id \in pendingDestroyed
  /\ pendingDestroyed' = pendingDestroyed \ {id}
  /\ views' = [w \in Windows |->
                 IF id \in hooks[w] THEN DestroyedHook(views[w], id)
                 ELSE views[w]]
  /\ hooks' = [w \in Windows |-> hooks[w] \ {id}]
  /\ lastOp' = Op("destroyed", 0, id, FALSE)
  /\ fault' = FALSE
  /\ rejected' = FALSE
  /\ sent' = <<>>
  /\ UNCHANGED <<managers, nextId, selectedId, fullscreen, attached, focus,
                 title, contentSize, alive, observed, zoom, muted, bounds,
                 applied, dlgTabIds, dlgVisible, previewVisible>>
  /\ UNCHANGED authVars

\* The window's content area changes size (calling fixBounds() is the
\* window's business: FixBounds).
Resize(w, width, height) ==
  /\ w \in Range(managers)
  /\ contentSize[w] # <<width, height>>
  /\ contentSize' = [contentSize EXCEPT ![w] = <<width, height>>]
  /\ lastOp' = Op("resize", w, 0, FALSE)
  /\ fault' = FALSE
  /\ rejected' = FALSE
  /\ sent' = <<>>
  /\ UNCHANGED <<managers, nextId, views, hooks, selectedId, fullscreen,
                 attached, focus, title, alive, pendingDestroyed, observed,
                 zoom, muted, bounds, applied, dlgTabIds, dlgVisible,
                 previewVisible>>
  /\ UNCHANGED authVars

\* A dialog adds or drops a tab id of its tabIds.
DialogSetTab(w, d, id, member) ==
  /\ w \in Range(managers)
  /\ (id \in dlgTabIds[w][d]) # member
  /\ dlgTabIds' = [dlgTabIds EXCEPT ![w][d] =
                     IF member THEN @ \cup {id} ELSE @ \ {id}]
  /\ lastOp' = Op("dialog", w, 0, FALSE)
  /\ fault' = FALSE
  /\ rejected' = FALSE
  /\ sent' = <<>>
  /\ UNCHANGED <<managers, nextId, views, hooks, selectedId, fullscreen,
                 attached, focus, title, contentSize, alive, pendingDestroyed,
                 observed, zoom, muted, bounds, applied, dlgVisible,
                 previewVisible>>
  /\ UNCHANGED authVars

\* A dialog shows or hides itself; the preview dialog shows itself.
DialogSetVisible(w, d, v) ==
  /\ w \in Range(managers)
  /\ dlgVisible[w][d] # v
  /\ dlgVisible' = [dlgVisible EXCEPT ![w][d] = v]
  /\ lastOp' = Op("dialog", w, 0, FALSE)
  /\ fault' = FALSE
  /\ rejected' = FALSE
  /\ sent' = <<>>
  /\ UNCHANGED <<managers, nextId, views, hooks, selectedId, fullscreen,
                 attached, focus, title, contentSize, alive, pendingDestroyed,
                 observed, zoom, muted, bounds, applied, dlgTabIds,
                 previewVisible>>
  /\ UNCHANGED authVars

PreviewShow(w) ==
  /\ w \in Range(managers)
  /\ ~previewVisible[w]
  /\ previewVisible' = [previewVisible EXCEPT ![w] = TRUE]
  /\ lastOp' = Op("dialog", w, 0, FALSE)
  /\ fault' = FALSE
  /\ rejected' = FALSE
  /\ sent' = <<>>
  /\ UNCHANGED <<managers, nextId, views, hooks, selectedId, fullscreen,
                 attached, focus, title, contentSize, alive, pendingDestroyed,
                 observed, zoom, muted, bounds, applied, dlgTabIds, dlgVisible>>
  /\ UNCHANGED authVars


\* ------------------------------------------- requests on shared channels
\* 'Print', 'change-zoom' and 'reset-zoom' are registered with ipcMain.on
\* under names that do not carry the window id: every constructed
\* ViewManager has a listener on each.  ipcMain is an EventEmitter: emit
\* calls the listeners in registration order and a listener that throws ends
\* the emit.  st = [zoom, sent, rejected, fault] is threaded through them.

\* The 'change-zoom' listener of manager w.
ChangeZoomHandler(w, zoomIn, st) ==
  IF ~HasSelected(views[w], selectedId[w])
    THEN [st EXCEPT !.fault = TRUE]
    ELSE LET sid == selectedId[w]
             newZoomFactor ==
               st.zoom[sid] + (IF zoomIn THEN ZOOM_FACTOR_INCREMENT
                                         ELSE -ZOOM_FACTOR_INCREMENT)
         IN
         IF ZoomInRange(newZoomFactor)
           THEN [st EXCEPT
                  !.zoom = [@ EXCEPT ![sid] = newZoomFactor],
                  !.sent = @ \o <<Msg(w, "view:zoom-updated", sid,
                                      newZoomFactor, FALSE, "none")>>
                             \o ZoomUpdateMsgs(w, sid, newZoomFactor, TRUE)]
           ELSE [st EXCEPT
                  !.rejected = TRUE,
                  !.sent = @ \o ZoomUpdateMsgs(w, sid, st.zoom[sid], TRUE)]

\* The 'reset-zoom' listener of manager w.
ResetZoomHandler(w, st) ==
  IF ~HasSelected(views[w], selectedId[w])
    THEN [st EXCEPT !.fault = TRUE]
    ELSE LET sid == selectedId[w] IN
         [st EXCEPT
           !.zoom = [@ EXCEPT ![sid] = ZOOM_FACTOR_ONE],
           !.sent = @ \o <<Msg(w, "view:zoom-updated", sid, ZOOM_FACTOR_ONE,
                               FALSE, "none")>>
                      \o ZoomUpdateMsgs(w, sid, ZOOM_FACTOR_ONE, TRUE)]

\* The 'Print' listener of manager w.
PrintHandler(w, st) ==
  IF ~HasSelected(views[w], selectedId[w])
    THEN [st EXCEPT !.fault = TRUE]
    ELSE [st EXCEPT !.sent = @ \o <<Msg(w, "view:print", selectedId[w], 0,
                                        FALSE, "none")>>]

RECURSIVE EmitChangeZoom(_, _, _)
EmitChangeZoom(ms, zoomIn, st) ==
  IF ms = <<>> \/ st.fault THEN st
  ELSE EmitChangeZoom(Tail(ms), zoomIn, ChangeZoomHandler(Head(ms), zoomIn, st))

RECURSIVE EmitResetZoom(_, _)
EmitResetZoom(ms, st) ==
  IF ms = <<>> \/ st.fault THEN st
  ELSE EmitResetZoom(Tail(ms), ResetZoomHandler(Head(ms), st))

RECURSIVE EmitPrint(_, _)
EmitPrint(ms, st) ==
  IF ms = <<>> \/ st.fault THEN st
  ELSE EmitPrint(Tail(ms), PrintHandler(Head(ms), st))

EmitStart == [zoom |-> zoom, sent |-> <<>>, rejected |-> FALSE, fault |-> FALSE]

SharedFrame ==
  /\ UNCHANGED <<managers, nextId, views, hooks, selectedId, fullscreen,
                 attached, focus, title, contentSize, alive, pendingDestroyed,
                 observed, muted, bounds, applied, dlgTabIds, dlgVisible,
                 previewVisible>>
  /\ UNCHANGED authVars

\* A 'change-zoom' request sent from window w's renderer.
ChangeZoom(w, zoomIn) ==
  /\ w \in Range(managers)
  /\ LET st == EmitChangeZoom(managers, zoomIn, EmitStart) IN
       /\ zoom' = st.zoom
       /\ sent' = st.sent
       /\ rejected' = st.rejected
       /\ fault' = st.fault
  /\ lastOp' = Op("change-zoom", w, 0, zoomIn)
  /\ SharedFrame

\* A 'reset-zoom' request sent from window w's renderer.
ResetZoom(w) ==
  /\ w \in Range(managers)
  /\ LET st == EmitResetZoom(managers, EmitStart) IN
       /\ zoom' = st.zoom
       /\ sent' = st.sent
       /\ rejected' = st.rejected
       /\ fault' = st.fault
  /\ lastOp' = Op("reset-zoom", w, 0, FALSE)
  /\ SharedFrame

\* A 'Print' request sent from window w's renderer.
OnPrint(w) ==
  /\ w \in Range(managers)
  /\ LET st == EmitPrint(managers, EmitStart) IN
       /\ zoom' = st.zoom
       /\ sent' = st.sent
       /\ rejected' = st.rejected
       /\ fault' = st.fault
  /\ lastOp' = Op("print", w, 0, FALSE)
  /\ SharedFrame

\* --------------------------------------------------------------- AuthWindow
\* ipcMain.on in place of ipcMain.once: the listeners stay registered.
OnceListenersAfterEmit_On(ls) == ls

\* ipcMain.once: emit removes every once-listener it calls.
OnceListenersAfterEmit(ls) == <<>>

\* The listener of request i: `resolve(result)`.  A promise keeps the value
\* of the first resolve; later resolves are ignored but counted here.
ResolveRequest(r, payload) ==
  [r EXCEPT !.resolved = TRUE,
            !.result = IF r.resolved THEN r.result ELSE payload,
            !.resolveCalls = @ + 1]

\* requestAuth(url): position and show the auth window, send it the url, and
\* register the once-listener that resolves the returned promise.
RequestAuth(url) ==
  /\ Len(authRequests) < MaxAuthRequests
  /\ authShown' = TRUE
  /\ authRequests' = Append(authRequests,
       [url |-> url, resolved |-> FALSE, result |-> 0, resolveCalls |-> 0])
  /\ authListeners' = Append(authListeners, Len(authRequests) + 1)
  /\ sent' = <<Msg(0, "auth:request-auth", 0, url, FALSE, "authWindow")>>
  /\ lastOp' = Op("requestAuth", 0, Len(authRequests) + 1, FALSE)
  /\ fault' = FALSE
  /\ rejected' = FALSE
  /\ UNCHANGED authEvents
  /\ UNCHANGED viewVars

\* ipcMain receives 'request-auth-result' carrying payload.
AuthResult(payload) ==
  /\ authEvents < MaxAuthEvents
  /\ authEvents' = authEvents + 1
  /\ authRequests' = [i \in DOMAIN authRequests |->
       IF i \in Range(authListeners)
         THEN ResolveRequest(authRequests[i], payload)
         ELSE authRequests[i]]
  /\ authListeners' = OnceListenersAfterEmit(authListeners)
  /\ sent' = <<>>
  /\ lastOp' = Op("request-auth-result", 0, payload, FALSE)
  /\ fault' = FALSE
  /\ rejected' = FALSE
  /\ UNCHANGED authShown
  /\ UNCHANGED viewVars


\* ----------------------------------------------------------- specifications
\* Number of tab ids the dialogs of window w hold.
RECURSIVE TabEntries(_, _)
TabEntries(tabs, i) ==
  IF i > Len(DialogList) THEN 0
  ELSE Cardinality(tabs[DialogList[i]]) + TabEntries(tabs, i + 1)

\* Dialogs of window w whose visibility is not what select() left.
Stale(w, vis) ==
  {d \in Dialogs : vis[d] # DialogShown(dlgTabIds[w][d], selectedId[w])}

\* Life cycle of the Views of one window.
NextLifecycle ==
  \/ \E isNext \in BOOLEAN, sendMessage \in BOOLEAN : Create(1, isNext, sendMessage)
  \/ \E id \in Ids, fcs \in BOOLEAN : Select(1, id, fcs)
  \/ \E id \in Ids : Destroy(1, id)
  \/ \E id \in Ids : SurfaceDies(id)
  \/ \E id \in Ids : DestroyedEvent(id)

SpecLifecycle == Init /\ [][NextLifecycle]_vars

\* Every request of one window.
Next ==
  \/ \E isNext \in BOOLEAN, sendMessage \in BOOLEAN : Create(1, isNext, sendMessage)
  \/ \E id \in Ids, fcs \in BOOLEAN : Select(1, id, fcs)
  \/ \E id \in Ids : Destroy(1, id)
  \/ Clear(1)
  \/ \E id \in Ids, val \in BOOLEAN : SetMuted(1, id, val)
  \/ \E id \in Ids : SurfaceDies(id)
  \/ \E id \in Ids : DestroyedEvent(id)

Spec == Init /\ [][Next]_vars

\* Selection and the dialogs.
NextDialogs ==
  \/ Create(1, FALSE, TRUE)
  \/ \E id \in Ids : Select(1, id, TRUE)
  \/ \E d \in Dialogs, id \in Ids, member \in BOOLEAN :
       /\ member => TabEntries(dlgTabIds[1], 1) < MaxTabEntries
       /\ DialogSetTab(1, d, id, member)
  \/ \E d \in Dialogs, v \in BOOLEAN :
       /\ Cardinality(Stale(1, [dlgVisible[1] EXCEPT ![d] = v])) <= MaxStale
       /\ DialogSetVisible(1, d, v)
  \/ PreviewShow(1)

SpecDialogs == Init /\ [][NextDialogs]_vars

\* Selection, fullscreen and the window size.
NextBounds ==
  \/ Create(1, FALSE, TRUE)
  \/ \E id \in Ids : Select(1, id, TRUE)
  \/ \E val \in BOOLEAN : SetFullscreen(1, val)
  \/ FixBounds(1)
  \/ \E width \in Dims, height \in Dims : Resize(1, width, height)

SpecBounds == Init /\ [][NextBounds]_vars

\* Selection, zoom and print of one window.
NextZoom ==
  \/ Create(1, FALSE, TRUE)
  \/ \E id \in Ids, fcs \in BOOLEAN : Select(1, id, fcs)
  \/ \E zoomIn \in BOOLEAN : ChangeZoom(1, zoomIn)
  \/ ResetZoom(1)
  \/ OnPrint(1)

SpecZoom == Init /\ [][NextZoom]_vars

\* The zoom requests of one window, from any factors within the limits.
SpecZoomRange == InitZoomRange /\ [][NextZoom]_vars

\* Two windows, every request.
NextWindows ==
  \/ \E w \in Windows : Create(w, FALSE, TRUE)
  \/ \E w \in Windows, id \in Ids : Select(w, id, TRUE)
  \/ \E w \in Windows, id \in Ids : Destroy(w, id)
  \/ \E w \in Windows : Clear(w)
  \/ \E w \in Windows, id \in Ids, val \in BOOLEAN : SetMuted(w, id, val)
  \/ \E id \in Ids : DestroyedEvent(id)
  \/ \E w \in Windows : OnPrint(w)
  \/ \E w \in Windows, zoomIn \in BOOLEAN : ChangeZoom(w, zoomIn)
  \/ \E w \in Windows : ResetZoom(w)

SpecWindows == InitWindows /\ [][NextWindows]_vars

\* The auth bridge.
NextAuth ==
  \/ \E url \in Payloads : RequestAuth(url)
  \/ \E payload \in Payloads : AuthResult(payload)

SpecAuth == Init /\ [][NextAuth]_vars


\* ------------------------------------------------------------------ claims
Managers == Range(managers)

\* Messages of channel ch sent for window w by the last request.
SentOn(w, ch) == {i \in DOMAIN sent : sent[i].w = w /\ sent[i].ch = ch}

\* C1: after every create, select, destroy and surface-destruction event at
\* most one View is attached to the window's display stack, and when
\* selectedId is a key of views the attached View is views.get(selectedId).
C1_SelectionExclusivity ==
  \A w \in Managers :
    /\ Cardinality(attached[w]) <= 1
    /\ selectedId[w] \in views[w] => attached[w] \subseteq {selectedId[w]}

\* C2: right after select(id) with id in views, each of the five dialogs is
\* visible exactly when id is in its tabIds (shown and raised when a member,
\* hidden otherwise) and the preview dialog is hidden.
C2_DialogConsistency ==
  (lastOp.op = "select" /\ lastOp.id \in views[lastOp.w]) =>
    LET w == lastOp.w
        id == lastOp.id
    IN
    /\ ~previewVisible[w]
    /\ \A d \in Dialogs :
         /\ dlgVisible[w][d] = (id \in dlgTabIds[w][d])
         /\ id \in dlgTabIds[w][d] =>
              \E i \in DOMAIN sent :
                /\ i + 1 \in DOMAIN sent
                /\ sent[i] = Msg(w, "dialog-show", id, 0, FALSE, d)
                /\ sent[i + 1] = Msg(w, "dialog-bringToTop", id, 0, FALSE, d)
         /\ id \notin dlgTabIds[w][d] =>
              /\ \E i \in DOMAIN sent :
                   sent[i] = Msg(w, "dialog-hide", id, 0, FALSE, d)
              /\ \A i \in DOMAIN sent :
                   sent[i].dlg = d => sent[i].ch = "dialog-hide"

\* C2 witness: a select of the second View left the dialog that pertains to
\* it shown and raised, and the other dialogs hidden.
C2_Witness ==
  /\ lastOp.op = "select"
  /\ lastOp.id \in views[1]
  /\ lastOp.id > 1
  /\ \E d \in Dialogs :
       /\ lastOp.id \in dlgTabIds[1][d]
       /\ dlgVisible[1][d]
       /\ \E i \in DOMAIN sent : sent[i].ch = "dialog-bringToTop" /\ sent[i].dlg = d
       /\ \A e \in Dialogs \ {d} : ~dlgVisible[1][e]

\* C3: select(id) with id not in views changes nothing, sends nothing and
\* raises no fault.
C3_SelectAbsentIsNoOp ==
  [][(lastOp'.op = "select" /\ lastOp'.id \notin views[lastOp'.w]) =>
       /\ viewVars' = viewVars
       /\ authVars' = authVars
       /\ sent' = <<>>
       /\ ~fault'
       /\ ~rejected']_vars

\* C3 witness: a select of an id already removed from the map, made while
\* another View is selected and attached.
C3_Witness ==
  /\ lastOp.op = "select"
  /\ lastOp.id < nextId
  /\ lastOp.id \notin views[1]
  /\ selectedId[1] \in views[1]
  /\ attached[1] = {selectedId[1]}

\* C4: destroy(id) never raises a fault; on an id that is absent from views
\* or whose surface is already destroyed it changes nothing; and an entry of
\* views whose surface is destroyed is removed when the 'destroyed' event is
\* delivered, whether destroy() was called or not.
C4_DestroyIdempotent ==
  /\ [](\A w \in Managers : views[w] \subseteq alive \cup pendingDestroyed)
  /\ [][lastOp'.op = "destroy" =>
          /\ ~fault'
          /\ lastOp'.id \notin alive'
          /\ (lastOp'.id \notin views[lastOp'.w] \/ lastOp'.id \notin alive) =>
                (viewVars' = viewVars /\ sent' = <<>>)
          /\ lastOp'.id \notin views[lastOp'.w] =>
                lastOp'.id \notin views'[lastOp'.w]]_vars

\* C4 witness: destroy of an id whose entry the 'destroyed' event already
\* removed.
C4_Witness ==
  /\ lastOp.op = "destroy"
  /\ lastOp.id < nextId
  /\ lastOp.id \notin views[1]
  /\ ~fault

\* C5: a mute-view or unmute-view request with an id that is not in views
\* raises no fault and changes no state.
C5_StaleMuteIsNoOp ==
  [][(lastOp'.op \in {"mute-view", "unmute-view"}
        /\ lastOp'.id \notin views[lastOp'.w]) =>
       (~fault' /\ viewVars' = viewVars)]_vars


\* C6: clear() detaches whatever is on the display stack and tears down every
\* View tracked in views, so that once the 'destroyed' events are delivered
\* views is empty.
C6_ClearTearsDownAll ==
  lastOp.op = "clear" =>
    /\ attached[lastOp.w] = {}
    /\ views[lastOp.w] \cap alive = {}

\* The requests a renderer of window w can issue.
Requests ==
  {"create", "select", "destroy", "mute-view", "unmute-view", "clear", "print",
   "change-zoom", "reset-zoom"}

\* C7: a request issued for one window leaves the other window's manager
\* untouched: its views, selectedId and its Views' zoom factors are unchanged
\* and no print or zoom message is sent on it.
C7_WindowScoped ==
  [][lastOp'.op \in Requests =>
       \A o \in Managers \ {lastOp'.w} :
         /\ views'[o] = views[o]
         /\ selectedId'[o] = selectedId[o]
         /\ \A id \in views[o] : zoom'[id] = zoom[id]
         /\ \A i \in DOMAIN sent' : sent'[i].w # o]_vars

\* C8: a change-zoom request whose candidate factor is beyond the limit on
\* its side leaves the selected View's factor as it was, marks the request
\* rejected, sends no per-view zoom-updated and still broadcasts the factor.
C8_ZoomClamp ==
  [][(lastOp'.op = "change-zoom"
        /\ \A w \in Managers : HasSelected(views[w], selectedId[w])) =>
       \A w \in Managers :
         LET sid == selectedId[w]
             f == zoom[sid]
             beyond == IF lastOp'.flag
                         THEN f + ZOOM_FACTOR_INCREMENT > ZOOM_FACTOR_MAX
                         ELSE f - ZOOM_FACTOR_INCREMENT < ZOOM_FACTOR_MIN
         IN beyond =>
              /\ zoom'[sid] = f
              /\ rejected'
              /\ ~fault'
              /\ SentOn(w, "view:zoom-updated")' = {}
              /\ \E i \in DOMAIN sent' :
                   sent'[i] = Msg(w, "zoomDialog:zoom-factor-updated", sid, f,
                                  FALSE, "zoomDialog")
              /\ \E i \in DOMAIN sent' :
                   sent'[i] = Msg(w, "window:zoom-factor-updated", sid, f,
                                  TRUE, "none")]_vars

\* C8 witness: a zoom-in at the upper limit and a zoom-out at the lower limit
\* were rejected.
C8_Witness ==
  /\ lastOp.op = "change-zoom"
  /\ rejected
  /\ selectedId[1] \in views[1]
  /\ \/ lastOp.flag /\ zoom[selectedId[1]] = ZOOM_FACTOR_MAX
     \/ ~lastOp.flag /\ zoom[selectedId[1]] = ZOOM_FACTOR_MIN
  /\ \E id \in views[1] : zoom[id] = ZOOM_FACTOR_MIN
  /\ \E id \in views[1] : zoom[id] = ZOOM_FACTOR_MAX

\* The rectangle the selected View of window w must have.
ExpectedRect(w) ==
  IF fullscreen[w]
    THEN [x |-> 0, y |-> 0, width |-> contentSize[w][1],
          height |-> contentSize[w][2]]
    ELSE [x |-> 0, y |-> VIEW_Y_OFFSET, width |-> contentSize[w][1],
          height |-> contentSize[w][2] - VIEW_Y_OFFSET]

\* C9: right after a select of a View in views, an assignment to fullscreen
\* or a fixBounds() made while a View is selected, the selected View's
\* applied and cached rectangle is {0, T, W, H - T}, or {0, 0, W, H} in
\* fullscreen; fixBounds() with no selected View changes nothing.
C9_BoundsFormula ==
  /\ []((\/ lastOp.op = "select" /\ lastOp.id \in views[lastOp.w]
         \/ lastOp.op \in {"fullscreen", "fixBounds"}
              /\ selectedId[lastOp.w] \in views[lastOp.w]) =>
          /\ bounds[selectedId[lastOp.w]] = ExpectedRect(lastOp.w)
          /\ applied[selectedId[lastOp.w]] = ExpectedRect(lastOp.w)
          /\ lastOp.op = "select" => selectedId[lastOp.w] = lastOp.id)
  /\ [][(lastOp'.op = "fixBounds"
           /\ selectedId[lastOp'.w] \notin views[lastOp'.w]) =>
          viewVars' = viewVars]_vars

\* C9 witness: a fixBounds() after a resize, in fullscreen and not, placed
\* the selected View of a window that is no longer of its initial size.
C9_Witness ==
  /\ lastOp.op = "fixBounds"
  /\ selectedId[1] \in views[1]
  /\ contentSize[1] # <<MaxDim, MaxDim>>
  /\ ~fullscreen[1]
  /\ bounds[selectedId[1]].height = contentSize[1][2] - VIEW_Y_OFFSET
  /\ \E id \in views[1] : id # selectedId[1] /\ bounds[id].y = 0

\* C10: a requestAuth call is pending until a response event that follows
\* it, is resolved once, by that event and with its payload, its listener
\* is discarded on that event, later events do not resolve it again or
\* change its result, and events before the call do not resolve it.
C10_AuthOneShot ==
  /\ [](\A i \in DOMAIN authRequests :
          /\ authRequests[i].resolveCalls <= 1
          /\ authRequests[i].resolved <=> authRequests[i].resolveCalls = 1
          /\ authRequests[i].resolved <=> i \notin Range(authListeners))
  /\ [][\A i \in DOMAIN authRequests' :
          IF i \notin DOMAIN authRequests
            THEN ~authRequests'[i].resolved
            ELSE IF authRequests[i].resolved
              THEN authRequests'[i] = authRequests[i]
              ELSE IF lastOp'.op = "request-auth-result"
                        /\ authEvents' = authEvents + 1
                THEN /\ authRequests'[i].resolved
                     /\ authRequests'[i].result = lastOp'.id
                ELSE ~authRequests'[i].resolved]_vars

\* C10 witness: a request made after a first response event was resolved by
\* the second one, and a third event with another payload left it alone.
C10_Witness ==
  /\ lastOp.op = "request-auth-result"
  /\ authEvents = 3
  /\ \E i \in DOMAIN authRequests :
       /\ authRequests[i].resolved
       /\ authRequests[i].result # lastOp.id
       /\ authRequests[i].resolveCalls = 1
       /\ i > 1
       /\ authRequests[1].result # authRequests[i].result

\* C11: after any sequence of create, select, destroy, clear and
\* surface-destruction events selectedId is either the sentinel 0, with no
\* View attached, or the id of a View present in views.
C11_SelectedIsLive ==
  \A w \in Managers :
    \/ selectedId[w] = NoSelection /\ attached[w] = {}
    \/ selectedId[w] \in views[w]

\* C12: handling a 'Print', 'change-zoom' or 'reset-zoom' request never
\* raises a fault, whatever create, select, destroy, clear and
\* surface-destruction events went before.
C12_SharedRequestsNeverFault ==
  lastOp.op \in {"print", "change-zoom", "reset-zoom"} => ~fault

\* C13: as soon as create() returns, views maps the new id to the new View,
\* so that a select of that id issued next makes it the selected and
\* attached View and a destroy of that id issued next tears it down; the
\* create-tab announcement is sent exactly when notify is true.
C13_CreatedIdIsValid ==
  [][/\ lastOp'.op = "create" =>
          /\ lastOp'.id \in views'[lastOp'.w]
          /\ lastOp'.id \notin views[lastOp'.w]
          /\ lastOp'.id \in alive'
          /\ lastOp'.id \in hooks'[lastOp'.w]
          /\ (sent' # <<>>) <=> lastOp'.flag
          /\ \A i \in DOMAIN sent' :
               sent'[i].ch = "window:create-tab" /\ sent'[i].id = lastOp'.id
     /\ (lastOp.op = "create" /\ lastOp'.op = "select"
           /\ lastOp'.id = lastOp.id /\ lastOp'.w = lastOp.w) =>
          /\ selectedId'[lastOp.w] = lastOp.id
          /\ lastOp.id \in attached'[lastOp.w]
          /\ ~fault'
     /\ (lastOp.op = "create" /\ lastOp'.op = "destroy"
           /\ lastOp'.id = lastOp.id /\ lastOp'.w = lastOp.w) =>
          /\ lastOp.id \notin alive'
          /\ lastOp.id \in pendingDestroyed'
          /\ lastOp.id \notin attached'[lastOp.w]
          /\ ~fault']_vars

\* C13 witness: a second View was created with its announcement while the
\* first one is selected; it is in views and not yet attached.
C13_Witness ==
  /\ lastOp = Op("create", 1, 2, TRUE)
  /\ sent = <<Msg(1, "window:create-tab", 2, 0, TRUE, "none")>>
  /\ views[1] = {1, 2}
  /\ selectedId[1] = 1
  /\ attached[1] = {1}

\* C14: after select(id, focus) with id in views, input focus is on the
\* selected View's surface when focus is true and on the window chrome when
\* it is false, and the title was refreshed from the selected View; after
\* create A, create B, select(A), select(B, false) the display stack holds
\* only B, the chrome has focus and the title is B's.
C14_FocusFollowsFlag ==
  /\ []((lastOp.op = "select" /\ lastOp.id \in views[lastOp.w]) =>
          /\ focus[lastOp.w] = (IF lastOp.flag THEN lastOp.id ELSE -1)
          /\ title[lastOp.w] = lastOp.id
          /\ lastOp.id \in attached[lastOp.w])
  /\ [][(/\ views[1] = {1, 2}
         /\ alive = {1, 2}
         /\ lastOp.op = "select" /\ lastOp.id = 1
         /\ selectedId[1] = 1
         /\ attached[1] = {1}
         /\ lastOp' = Op("select", 1, 2, FALSE)) =>
          /\ attached'[1] = {2}
          /\ focus'[1] = -1
          /\ title'[1] = 2
          /\ selectedId'[1] = 2]_vars

\* C14 witness: the scenario's end: A and B created, A selected with focus,
\* then B selected without focus.
C14_Witness ==
  /\ lastOp = Op("select", 1, 2, FALSE)
  /\ views[1] = {1, 2}
  /\ alive = {1, 2}
  /\ attached[1] = {2}
  /\ focus[1] = -1
  /\ title[1] = 2
  /\ bounds[1] # NoRect

\* What C15 says of a select of the id that is already selected, but for
\* the display stack: selectedId stays, the View is attached, the dialogs
\* and the bounds are recomputed from the current tabIds, fullscreen flag
\* and content size, and a repeated call changes nothing more.
ReselectResyncs(w) ==
  (lastOp'.op = "select" /\ lastOp'.w = w /\ lastOp'.id = selectedId[w]
     /\ selectedId[w] \in views[w]) =>
    /\ selectedId'[w] = selectedId[w]
    /\ selectedId[w] \in attached'[w]
    /\ \A d \in Dialogs :
         dlgVisible'[w][d] = (selectedId[w] \in dlgTabIds[w][d])
    /\ bounds'[selectedId[w]] = ExpectedRect(w)
    /\ applied'[selectedId[w]] = ExpectedRect(w)
    /\ lastOp = lastOp' => (viewVars' = viewVars /\ sent' = sent)

\* C15: select(id) issued while selectedId = id leaves selectedId = id with
\* exactly that View attached and re-runs the whole synchronisation, so the
\* dialogs and the bounds after the call reflect the current tabIds,
\* fullscreen flag and content size; repeated with no change in between it
\* leaves the state of the first call.
C15_ReselectIdempotent ==
  [][\A w \in Managers :
       /\ ReselectResyncs(w)
       /\ (lastOp'.op = "select" /\ lastOp'.w = w
             /\ lastOp'.id = selectedId[w] /\ selectedId[w] \in views[w]) =>
            attached'[w] = {selectedId[w]}]_vars

ReselectResyncsAlways == [][\A w \in Managers : ReselectResyncs(w)]_vars

\* C16: a change-zoom request whose candidate factor lies within
\* [min, max], the limits included, sets the selected View's factor to the
\* candidate, is not marked rejected, and sends the per-view zoom-updated to
\* that View first and then the zoom broadcast with the new value.
C16_InRangeZoomStep ==
  [][(lastOp'.op = "change-zoom"
        /\ \A w \in Managers : HasSelected(views[w], selectedId[w])) =>
       \A w \in Managers :
         LET sid == selectedId[w]
             cand == IF lastOp'.flag
                       THEN zoom[sid] + ZOOM_FACTOR_INCREMENT
                       ELSE zoom[sid] - ZOOM_FACTOR_INCREMENT
         IN (ZOOM_FACTOR_MIN <= cand /\ cand <= ZOOM_FACTOR_MAX) =>
              /\ zoom'[sid] = cand
              /\ ~rejected'
              /\ ~fault'
              /\ \E i \in DOMAIN sent' :
                   /\ i + 2 \in DOMAIN sent'
                   /\ sent'[i] = Msg(w, "view:zoom-updated", sid, cand, FALSE,
                                     "none")
                   /\ sent'[i + 1] = Msg(w, "zoomDialog:zoom-factor-updated",
                                         sid, cand, FALSE, "zoomDialog")
                   /\ sent'[i + 2] = Msg(w, "window:zoom-factor-updated", sid,
                                         cand, TRUE, "none")
              /\ Cardinality({i \in DOMAIN sent' : sent'[i].w = w}) = 3]_vars

\* C16 witness: a zoom-in from one increment below the upper limit was
\* applied: the selected View is now exactly at the limit.
C16_Witness ==
  /\ lastOp.op = "change-zoom"
  /\ lastOp.flag
  /\ ~rejected
  /\ ~fault
  /\ selectedId[1] \in views[1]
  /\ zoom[selectedId[1]] = ZOOM_FACTOR_MAX
  /\ Len(sent) = 3
  /\ sent[3].val = ZOOM_FACTOR_MAX

\* The zoom broadcasts of window w among the messages of the last operation.
ZoomBroadcasts(w) ==
  {i \in DOMAIN sent : sent[i].w = w /\ sent[i].ch = "window:zoom-factor-updated"}

\* C17: every select of a live View ends with the selected View's zoom
\* factor sent to the zoom dialog and then to the window with the
\* show-dialog flag false; a change-zoom or reset-zoom that completes
\* broadcasts with the flag true; the value broadcast is always the zoom
\* factor of the View selected at that moment.
C17_ZoomBroadcastFlag ==
  /\ (lastOp.op = "select" /\ lastOp.id \in views[lastOp.w]) =>
       /\ Len(sent) >= 2
       /\ sent[Len(sent) - 1] =
            Msg(lastOp.w, "zoomDialog:zoom-factor-updated", lastOp.id,
                zoom[lastOp.id], FALSE, "zoomDialog")
       /\ sent[Len(sent)] =
            Msg(lastOp.w, "window:zoom-factor-updated", lastOp.id,
                zoom[lastOp.id], FALSE, "none")
       /\ selectedId[lastOp.w] = lastOp.id
  /\ (lastOp.op \in {"change-zoom", "reset-zoom"} /\ ~fault) =>
       \A w \in Managers :
         /\ Cardinality(ZoomBroadcasts(w)) = 1
         /\ sent[Len(sent)].ch = "window:zoom-factor-updated"
         /\ \A i \in ZoomBroadcasts(w) : sent[i].flag
  /\ \A w \in Managers : \A i \in ZoomBroadcasts(w) :
       /\ selectedId[w] \in views[w]
       /\ sent[i].id = selectedId[w]
       /\ sent[i].val = zoom[selectedId[w]]

\* C17 witness: a View whose factor was changed is selected again, and the
\* select ends with a silent broadcast of that factor.
C17_Witness ==
  /\ lastOp.op = "select"
  /\ lastOp.id \in views[lastOp.w]
  /\ zoom[lastOp.id] # ZOOM_FACTOR_ONE
  /\ Len(sent) >= 2
  /\ ~sent[Len(sent)].flag
  /\ sent[Len(sent)].val = zoom[lastOp.id]

\* The requests a step resolves.
NewlyResolved ==
  {i \in DOMAIN authRequests :
     ~authRequests[i].resolved /\ authRequests'[i].resolved}

\* C18: when two requestAuth calls are pending, one response event resolves
\* only one of them and the other stays pending until a further event: no
\* single response event resolves two pending requests.
C18_OneRequestPerEvent ==
  [][lastOp'.op = "request-auth-result" =>
       Cardinality(NewlyResolved) <= 1]_vars

\* What the listeners do instead: one response event resolves every request
\* pending at that moment, each with the payload of that event.
C18_EventResolvesAllPending ==
  [][lastOp'.op = "request-auth-result" =>
       \A i \in DOMAIN authRequests :
         /\ authRequests'[i].resolved
         /\ ~authRequests[i].resolved => authRequests'[i].result = lastOp'.id]_vars

\* C19: starting with every View's factor within [min, max], every View's
\* factor stays within [min, max] after any sequence of select, change-zoom
\* and reset-zoom requests, and a change-zoom or reset-zoom request changes
\* the factor of the selected View only.
C19_ZoomRangeInvariant ==
  /\ [](\A id \in Ids :
          ZOOM_FACTOR_MIN <= zoom[id] /\ zoom[id] <= ZOOM_FACTOR_MAX)
  /\ [][lastOp'.op \in {"change-zoom", "reset-zoom"} =>
          \A id \in Ids :
            zoom'[id] # zoom[id] =>
              \E w \in Managers : id = selectedId[w] /\ id \in views[w]]_vars
  /\ [][lastOp'.op = "select" => zoom' = zoom]_vars

\* C19 witness: the selected View was zoomed out to the lower limit while
\* another View kept a different factor it started with.
C19_Witness ==
  /\ lastOp.op = "change-zoom"
  /\ ~lastOp.flag
  /\ ~rejected
  /\ selectedId[1] \in views[1]
  /\ zoom[selectedId[1]] = ZOOM_FACTOR_MIN
  /\ \E id \in views[1] :
       id # selectedId[1] /\ zoom[id] \notin {ZOOM_FACTOR_MIN, ZOOM_FACTOR_ONE}

\* What a step leaves alone of the selection of window w.
SelectionIntact(w) ==
  /\ selectedId'[w] = selectedId[w]
  /\ (selectedId[w] \in attached[w]) => (selectedId[w] \in attached'[w])
  /\ bounds' = bounds
  /\ applied' = applied
  /\ dlgVisible' = dlgVisible
  /\ previewVisible' = previewVisible
  /\ focus' = focus

\* C20: destroy(id) of a live View that is not the selected one leaves
\* selectedId, the attachment of the selected View, its bounds and the dialog
\* visibilities as they were, and the only entry views loses, once the
\* 'destroyed' event is delivered, is the one of id.
C20_DestroyOtherKeepsSelection ==
  /\ [][\A w \in Managers :
          (lastOp'.op = "destroy" /\ lastOp'.w = w
             /\ lastOp'.id \in views[w] /\ lastOp'.id \in alive
             /\ lastOp'.id # selectedId[w]) =>
            /\ SelectionIntact(w)
            /\ attached'[w] = attached[w] \ {lastOp'.id}
            /\ views' = views
            /\ lastOp'.id \notin alive'
            /\ lastOp'.id \in pendingDestroyed'
            /\ ~fault']_vars
  /\ [][\A w \in Managers :
          (lastOp'.op = "destroyed" /\ lastOp'.id \in views[w]
             /\ lastOp'.id # selectedId[w]) =>
            /\ SelectionIntact(w)
            /\ attached' = attached
            /\ views'[w] = views[w] \ {lastOp'.id}]_vars

\* C20 witness: destroy() has torn down a live View while another one is
\* selected, attached and placed.
C20_Witness ==
  /\ lastOp.op = "destroy"
  /\ lastOp.flag
  /\ lastOp.id # selectedId[1]
  /\ selectedId[1] \in views[1]
  /\ attached[1] = {selectedId[1]}
  /\ bounds[selectedId[1]] # NoRect
  /\ lastOp.id \in views[1]
  /\ lastOp.id \in pendingDestroyed

====
